---- MODULE Spec2Model ----
(***************************************************************************)
(* Windowed chunk store of the context-enrichment notebook:                *)
(*   split_text_to_chunks_with_indices, get_chunk_by_index and             *)
(*   retrieve_with_context_overlap                                         *)
(* (all_rag_techniques/context_enrichment_window_around_chunk.ipynb).      *)
(*                                                                         *)
(* A text is a sequence of character codes.  A Document is a record        *)
(* [page_content, metadata]; metadata is a record that may or may not      *)
(* carry an "index" field, and metadata.get(key) is modelled as an option: *)
(* <<>> is Python's None and <<v>> is the value v.                         *)
(***************************************************************************)
EXTENDS Integers, Sequences, FiniteSets, TLC

\* ------------------------------------------------------------------ bounds
\* longest source text explored by Spec
MaxLen == 5
\* largest chunk_size / chunk_overlap handed to the splitter and the expander
MaxSize == 3
\* chunk_size / chunk_overlap go down to -NegRange (configurations the code
\* does not reject)
NegRange == 1
\* largest num_neighbors handed to the expander
MaxNeighbors == 2
\* the while loop of the splitter is cut after this many chunks (it only
\* binds when chunk_size - chunk_overlap <= 0, where the loop never ends)
MaxChunks == MaxLen + 1

\* --------------------------------------------------------- program constants
\* chunks_size / chunk_overlap of the notebook's split cell
NotebookChunkSize == 400
NotebookChunkOverlap == 200
\* defaults of retrieve_with_context_overlap's parameters
DefaultChunkSize == 200
DefaultChunkOverlap == 20
\* length of the known string of the round-trip property
RoundTripLen == 1000

\* ------------------------------------------------------------------ helpers
Max(a, b) == IF a >= b THEN a ELSE b
Min(a, b) == IF a <= b THEN a ELSE b

\* Python's None and a present value, for dict.get
None == <<>>
Some(v) == <<v>>

\* the text of n characters whose k-th character has code k: every offset of
\* it is recognisable, so a lost or a doubled character always shows
TextOfLen(n) == [k \in 1..n |-> k]

\* Python's normalisation of one slice bound against a sequence of length n
PyIndex(x, n) == IF x < 0 THEN Max(x + n, 0) ELSE Min(x, n)

\* Python's s[a:b]
PySlice(s, a, b) ==
    LET lo == PyIndex(a, Len(s))
        hi == PyIndex(b, Len(s))
    IN  IF lo >= hi THEN <<>> ELSE SubSeq(s, lo + 1, hi)

\* doc.metadata.get('index')
MetadataGetIndex(doc) ==
    IF "index" \in DOMAIN doc.metadata THEN Some(doc.metadata.index) ELSE None

\* ----------------------------------------- split_text_to_chunks_with_indices
\* the mutant of ChunkEnd: the slice ends one character early
ChunkEndShort(s, size) == s + size - 1

\* end = start + chunk_size
ChunkEnd(s, size) == s + size

\* the mutant of NextStart: the overlap is forgotten
NextStartNoOverlap(s, size, overlap) == s + size

\* start += chunk_size - chunk_overlap
NextStart(s, size, overlap) == s + size - overlap

\* the mutant of NewDocument: indices count from 1
NewDocumentOneBased(chunk, list, source) ==
    [page_content |-> chunk,
     metadata |-> [index |-> Len(list) + 1, text |-> source]]

\* Document(page_content=chunk, metadata={"index": len(chunks), "text": text})
NewDocument(chunk, list, source) ==
    [page_content |-> chunk,
     metadata |-> [index |-> Len(list), text |-> source]]

\* the mutant of FreshChunkList: the list of the previous call is kept (as a
\* mutable default argument would be)
SharedChunkList(previous) == previous

\* chunks = []: every call starts from a new, empty list
FreshChunkList(previous) == <<>>

\* ------------------------------------------------------------ input domains
\* source texts: one of every length up to MaxLen
Texts == {TextOfLen(n) : n \in 0..MaxLen}
\* values of chunk_size and of chunk_overlap: the code takes any integer
SizeInputs == (0 - NegRange)..MaxSize
\* 0 <= chunk_overlap < chunk_size, the configurations the contract allows
ValidConfig(size, overlap) == 0 <= overlap /\ overlap < size

\* --------------------------------------------------------------- the store
\* a document that carries no index metadata (a retriever over documents
\* that were not made by the splitter)
UnindexedDocument == [page_content |-> <<>>, metadata |-> [text |-> <<>>]]

Reverse(s) == [k \in 1..Len(s) |-> s[Len(s) + 1 - k]]

\* vectorstore.similarity_search("", k=vectorstore.index.ntotal): every
\* document of the store, in the order of their distance to the empty query,
\* which the embedding decides
SearchOrders(store) == {store, Reverse(store)}

\* the mutant of get_chunk_by_index: the scan compares with target_index + 1
RECURSIVE get_chunk_by_index_off_by_one(_, _)
get_chunk_by_index_off_by_one(all_docs, target_index) ==
    IF all_docs = <<>> THEN None
    ELSE IF MetadataGetIndex(Head(all_docs)) = Some(target_index + 1)
         THEN Some(Head(all_docs))
         ELSE get_chunk_by_index_off_by_one(Tail(all_docs), target_index)

\* the mutant of get_chunk_by_index: after a scan without a match the loop
\* variable doc, the last document scanned, is returned instead of None
RECURSIVE get_chunk_by_index_returns_last(_, _)
get_chunk_by_index_returns_last(all_docs, target_index) ==
    IF all_docs = <<>> THEN None
    ELSE IF MetadataGetIndex(Head(all_docs)) = Some(target_index)
         THEN Some(Head(all_docs))
         ELSE IF Len(all_docs) = 1
              THEN Some(Head(all_docs))
              ELSE get_chunk_by_index_returns_last(Tail(all_docs), target_index)

\* for doc in all_docs: if doc.metadata.get('index') == target_index: return doc
\* return None
RECURSIVE get_chunk_by_index(_, _)
get_chunk_by_index(all_docs, target_index) ==
    IF all_docs = <<>> THEN None
    ELSE IF MetadataGetIndex(Head(all_docs)) = Some(target_index)
         THEN Some(Head(all_docs))
         ELSE get_chunk_by_index(Tail(all_docs), target_index)

\* ------------------------------------------- retrieve_with_context_overlap
\* the mutant of StartIndex: one chunk too many before the center
StartIndexOneMore(center, neighbors) == Max(0, center - neighbors - 1)

\* start_index = max(0, current_index - num_neighbors)
StartIndex(center, neighbors) == Max(0, center - neighbors)

\* the mutant of EndIndex: the "+ 1" of the exclusive bound is forgotten
EndIndexNoPlusOne(center, neighbors) == center + neighbors

\* the mutant of EndIndex: the "+ 1" of the exclusive bound is doubled
EndIndexOneMore(center, neighbors) == center + neighbors + 2

\* end_index = current_index + num_neighbors + 1
EndIndex(center, neighbors) == center + neighbors + 1

\* x.metadata.get('index', 0), the key of the sort
SortKey(doc) == IF "index" \in DOMAIN doc.metadata THEN doc.metadata.index ELSE 0

\* list.sort(key=...) is stable: doc goes behind every element whose key is
\* not larger
RECURSIVE InsertByKey(_, _)
InsertByKey(doc, sorted) ==
    IF sorted = <<>> THEN <<doc>>
    ELSE IF SortKey(sorted[Len(sorted)]) <= SortKey(doc)
         THEN Append(sorted, doc)
         ELSE Append(InsertByKey(doc, SubSeq(sorted, 1, Len(sorted) - 1)),
                     sorted[Len(sorted)])

\* neighbor_chunks.sort(key=lambda x: x.metadata.get('index', 0))
RECURSIVE SortByIndex(_)
SortByIndex(list) ==
    IF list = <<>> THEN <<>>
    ELSE InsertByKey(list[Len(list)], SortByIndex(SubSeq(list, 1, Len(list) - 1)))

OverlapToTrimFromSize(size, overlap) == size - overlap

\* the number of characters the stitch trims: the chunk_overlap argument;
\* the chunk_size argument is not used by the function body
OverlapToTrim(size, overlap) == overlap

\* the mutant of OverlapStart: nothing is trimmed
OverlapStartNoTrim(accumulated, overlap) == Len(accumulated)

\* overlap_start = max(0, len(concatenated_text) - chunk_overlap)
OverlapStart(accumulated, overlap) == Max(0, Len(accumulated) - overlap)

\* concatenated_text = concatenated_text[:overlap_start] + current_chunk
Stitch(accumulated, current_chunk, overlap) ==
    PySlice(accumulated, 0, OverlapStart(accumulated, overlap)) \o current_chunk

\* the mutant of DocumentsAfterStitch: the stitched text is written into the
\* first chunk of the window, which is the store's own Document object
DocumentsStitchedInPlace(store, window, accumulated) ==
    [k \in 1..Len(store) |->
        IF MetadataGetIndex(store[k]) = MetadataGetIndex(window[1])
        THEN [store[k] EXCEPT !.page_content = accumulated]
        ELSE store[k]]

\* the documents of the store after a stitch: the statement binds the local
\* name concatenated_text, no Document is written
DocumentsAfterStitch(store, window, accumulated) == store

VARIABLES
    text, chunk_size, chunk_overlap,  \* arguments of the splitter call
    start, chunks,                    \* locals of the splitter
    pc,                               \* position of the notebook's control
    vectorstore,                      \* documents held by the FAISS store
    search_order,                     \* order similarity_search returns them in
    relevant_chunks,                  \* retriever.get_relevant_documents(query)
    num_neighbors, arg_chunk_size, arg_chunk_overlap, \* expander arguments
    next_chunk,                       \* position of `for chunk in relevant_chunks`
    current_index, start_index, end_index,
    i,                                \* variable of `for i in range(...)`
    neighbor_chunks, concatenated_text, result_sequences,
    lookup_target, lookup_result,     \* a direct get_chunk_by_index call
    previous_chunks,                  \* list returned by the previous split call
    hype_chunks,                      \* argument chunks of prepare_vector_store
    llm_response,                     \* what question_chain.invoke returns, per chunk
    futures,                          \* state of each submitted future
    yielded,                          \* futures as_completed has yielded, in order
    chunk_vectors,                    \* `chunk, vectors` of the current iteration
    vector_store,                     \* local vector_store: None or the FAISS store
    faiss_calls,                      \* how many times FAISS(...) was constructed
    previous_result                   \* what the previous expander call returned

splitVars == <<text, chunk_size, chunk_overlap, start, chunks>>
storeVars == <<vectorstore, search_order>>
callVars == <<relevant_chunks, num_neighbors, arg_chunk_size, arg_chunk_overlap>>
loopVars == <<next_chunk, current_index, start_index, end_index, i,
              neighbor_chunks, concatenated_text, result_sequences>>
lookupVars == <<lookup_target, lookup_result>>
hypeVars == <<hype_chunks, llm_response, futures, yielded, chunk_vectors,
              vector_store, faiss_calls>>
otherVars == <<lookupVars, previous_chunks, hypeVars, previous_result>>
vars == <<splitVars, pc, storeVars, callVars, loopVars, otherVars>>

\* prepare_vector_store has not been called: its locals hold nothing
HyPENotCalled ==
    /\ hype_chunks = <<>>
    /\ llm_response = <<>>
    /\ futures = <<>>
    /\ yielded = <<>>
    /\ chunk_vectors = None
    /\ vector_store = None
    /\ faiss_calls = 0

\* ------------------------------------------------------------ initial states
\* the state at the entry of split_text_to_chunks_with_indices: chunks = [],
\* start = 0; nothing is stored or retrieved yet
InitRest ==
    /\ start = 0
    /\ chunks = <<>>
    /\ pc = "split"
    /\ vectorstore = <<>>
    /\ search_order = <<>>
    /\ relevant_chunks = <<>>
    /\ num_neighbors = 0
    /\ arg_chunk_size = DefaultChunkSize
    /\ arg_chunk_overlap = DefaultChunkOverlap
    /\ next_chunk = 1
    /\ current_index = None
    /\ start_index = 0
    /\ end_index = 0
    /\ i = 0
    /\ neighbor_chunks = <<>>
    /\ concatenated_text = <<>>
    /\ result_sequences = <<>>
    /\ lookup_target = 0
    /\ lookup_result = None
    /\ previous_chunks = None
    /\ previous_result = None
    /\ HyPENotCalled

Init ==
    /\ text \in Texts
    /\ chunk_size \in SizeInputs
    /\ chunk_overlap \in SizeInputs
    /\ InitRest

\* the notebook's own split: chunks_size = 400, chunk_overlap = 200, on the
\* known string of RoundTripLen characters
InitRoundTrip ==
    /\ text = TextOfLen(RoundTripLen)
    /\ chunk_size = NotebookChunkSize
    /\ chunk_overlap = NotebookChunkOverlap
    /\ InitRest

\* ----------------------------------------- split_text_to_chunks_with_indices
\* one pass of `while start < len(text)`
SplitIteration ==
    /\ pc = "split"
    /\ start < Len(text)
    /\ Len(chunks) < MaxChunks
    /\ chunks' = Append(chunks,
                        NewDocument(PySlice(text, start, ChunkEnd(start, chunk_size)),
                                    chunks, text))
    /\ start' = NextStart(start, chunk_size, chunk_overlap)
    /\ UNCHANGED <<text, chunk_size, chunk_overlap, pc, storeVars, callVars, loopVars>>
    /\ UNCHANGED otherVars

\* the loop condition fails: return chunks
SplitReturn ==
    /\ pc = "split"
    /\ ~(start < Len(text))
    /\ pc' = "split_done"
    /\ UNCHANGED <<splitVars, storeVars, callVars, loopVars>>
    /\ UNCHANGED otherVars

\* the splitter is called again on the same arguments (the cell is run
\* again): the list it returned is kept for comparison, its locals start anew
Resplit ==
    /\ pc = "split_done"
    /\ previous_chunks = None
    /\ previous_chunks' = Some(chunks)
    /\ chunks' = FreshChunkList(chunks)
    /\ start' = 0
    /\ pc' = "split"
    /\ UNCHANGED <<text, chunk_size, chunk_overlap, storeVars, callVars, loopVars,
                   lookupVars, hypeVars, previous_result>>

\* vectorstore = FAISS.from_documents(docs, embeddings); FAISS cannot build an
\* index from an empty list of documents
FromDocuments ==
    /\ pc = "split_done"
    /\ chunks # <<>>
    /\ vectorstore' = chunks
    /\ search_order' \in SearchOrders(chunks)
    /\ pc' = "ready"
    /\ previous_chunks' = None
    /\ UNCHANGED <<splitVars, callVars, loopVars, lookupVars, hypeVars,
                   previous_result>>

\* ------------------------------------------------------- get_chunk_by_index
\* target indices of a direct call: negative, in range and beyond the last
LookupTargets == (0 - NegRange)..MaxChunks

\* chunk = get_chunk_by_index(vectorstore, target_index), called on its own;
\* the locals of an expansion that has returned are gone
Lookup ==
    /\ pc \in {"ready", "returned", "looked_up"}
    /\ lookup_target' \in LookupTargets
    /\ lookup_result' = get_chunk_by_index(search_order, lookup_target')
    /\ pc' = "looked_up"
    /\ relevant_chunks' = <<>>
    /\ num_neighbors' = 0
    /\ arg_chunk_size' = DefaultChunkSize
    /\ arg_chunk_overlap' = DefaultChunkOverlap
    /\ result_sequences' = <<>>
    /\ next_chunk' = 1
    /\ current_index' = None
    /\ start_index' = 0
    /\ end_index' = 0
    /\ i' = 0
    /\ neighbor_chunks' = <<>>
    /\ concatenated_text' = <<>>
    /\ previous_result' = None
    /\ UNCHANGED <<splitVars, storeVars, previous_chunks, hypeVars>>

\* ------------------------------------------- retrieve_with_context_overlap
\* what retriever.get_relevant_documents(query) can return with k = 1: any
\* one document
RetrieverResults == {<<doc>> : doc \in {vectorstore[k] : k \in 1..Len(vectorstore)}
                                      \cup {UnindexedDocument}}

\* values of the chunk_overlap argument: the one of the split, the default,
\* and any other
OverlapArgs == {chunk_overlap, DefaultChunkOverlap} \cup SizeInputs

\* values of the chunk_size argument
SizeArgs == {chunk_size, DefaultChunkSize}

\* the call: relevant_chunks = retriever.get_relevant_documents(query);
\* result_sequences = []
Retrieve ==
    /\ pc \in {"ready", "returned", "looked_up"}
    /\ relevant_chunks' \in RetrieverResults
    /\ num_neighbors' \in 0..MaxNeighbors
    /\ arg_chunk_size' \in SizeArgs
    /\ arg_chunk_overlap' \in OverlapArgs
    /\ result_sequences' = <<>>
    /\ next_chunk' = 1
    /\ current_index' = None
    /\ start_index' = 0
    /\ end_index' = 0
    /\ i' = 0
    /\ neighbor_chunks' = <<>>
    /\ concatenated_text' = <<>>
    /\ pc' = "for_chunk"
    /\ lookup_target' = 0
    /\ lookup_result' = None
    /\ previous_result' = None
    /\ UNCHANGED <<splitVars, storeVars, previous_chunks, hypeVars>>

\* for chunk in relevant_chunks: current_index is None -> continue
SkipChunk ==
    /\ pc = "for_chunk"
    /\ next_chunk <= Len(relevant_chunks)
    /\ MetadataGetIndex(relevant_chunks[next_chunk]) = None
    /\ current_index' = None
    /\ next_chunk' = next_chunk + 1
    /\ UNCHANGED <<splitVars, pc, storeVars, callVars, start_index, end_index, i,
                   neighbor_chunks, concatenated_text, result_sequences>>
    /\ UNCHANGED otherVars

\* for chunk in relevant_chunks: the range of chunks to retrieve
BeginWindow ==
    /\ pc = "for_chunk"
    /\ next_chunk <= Len(relevant_chunks)
    /\ MetadataGetIndex(relevant_chunks[next_chunk]) # None
    /\ current_index' = MetadataGetIndex(relevant_chunks[next_chunk])
    /\ start_index' = StartIndex(current_index'[1], num_neighbors)
    /\ end_index' = EndIndex(current_index'[1], num_neighbors)
    /\ neighbor_chunks' = <<>>
    /\ i' = start_index'
    /\ pc' = "collect"
    /\ UNCHANGED <<splitVars, storeVars, callVars, next_chunk,
                   concatenated_text, result_sequences>>
    /\ UNCHANGED otherVars

\* one pass of `for i in range(start_index, end_index)`
CollectNeighbor ==
    /\ pc = "collect"
    /\ i < end_index
    /\ LET neighbor_chunk == get_chunk_by_index(search_order, i)
       IN  neighbor_chunks' = IF neighbor_chunk # None
                              THEN Append(neighbor_chunks, neighbor_chunk[1])
                              ELSE neighbor_chunks
    /\ i' = i + 1
    /\ UNCHANGED <<splitVars, pc, storeVars, callVars, next_chunk, current_index,
                   start_index, end_index, concatenated_text, result_sequences>>
    /\ UNCHANGED otherVars

\* the range is exhausted: neighbor_chunks.sort(...)
SortNeighbors ==
    /\ pc = "collect"
    /\ ~(i < end_index)
    /\ neighbor_chunks' = SortByIndex(neighbor_chunks)
    /\ pc' = "concat"
    /\ UNCHANGED <<splitVars, storeVars, callVars, next_chunk, current_index,
                   start_index, end_index, i, concatenated_text, result_sequences>>
    /\ UNCHANGED otherVars

\* concatenated_text = neighbor_chunks[0].page_content, an IndexError on an
\* empty list
StartConcat ==
    /\ pc = "concat"
    /\ IF neighbor_chunks = <<>>
       THEN /\ pc' = "error"
            /\ UNCHANGED <<concatenated_text, i>>
       ELSE /\ concatenated_text' = neighbor_chunks[1].page_content
            /\ i' = 1
            /\ pc' = "stitch"
    /\ UNCHANGED <<splitVars, storeVars, callVars, next_chunk, current_index,
                   start_index, end_index, neighbor_chunks, result_sequences>>
    /\ UNCHANGED otherVars

\* one pass of `for i in range(1, len(neighbor_chunks))`
StitchNext ==
    /\ pc = "stitch"
    /\ i < Len(neighbor_chunks)
    /\ concatenated_text' = Stitch(concatenated_text,
                                   neighbor_chunks[i + 1].page_content,
                                   OverlapToTrim(arg_chunk_size, arg_chunk_overlap))
    /\ i' = i + 1
    /\ vectorstore' = DocumentsAfterStitch(vectorstore, neighbor_chunks,
                                           concatenated_text')
    /\ UNCHANGED <<splitVars, pc, search_order, callVars, next_chunk, current_index,
                   start_index, end_index, neighbor_chunks, result_sequences,
                   otherVars>>

\* result_sequences.append(concatenated_text)
AppendSequence ==
    /\ pc = "stitch"
    /\ ~(i < Len(neighbor_chunks))
    /\ result_sequences' = Append(result_sequences, concatenated_text)
    /\ next_chunk' = next_chunk + 1
    /\ pc' = "for_chunk"
    /\ UNCHANGED <<splitVars, storeVars, callVars, current_index, start_index,
                   end_index, i, neighbor_chunks, concatenated_text>>
    /\ UNCHANGED otherVars

\* return result_sequences
ReturnSequences ==
    /\ pc = "for_chunk"
    /\ ~(next_chunk <= Len(relevant_chunks))
    /\ pc' = "returned"
    /\ UNCHANGED <<splitVars, storeVars, callVars, loopVars>>
    /\ UNCHANGED otherVars

Next ==
    \/ SplitIteration
    \/ SplitReturn
    \/ Resplit
    \/ FromDocuments
    \/ Lookup
    \/ Retrieve
    \/ SkipChunk
    \/ BeginWindow
    \/ CollectNeighbor
    \/ SortNeighbors
    \/ StartConcat
    \/ StitchNext
    \/ AppendSequence
    \/ ReturnSequences

Spec == Init /\ [][Next]_vars

SpecRoundTrip == InitRoundTrip /\ [][Next]_vars

\* ---------------------------------------- further calls of the expander
\* what a retriever with k = 2 can return: any two documents, in any order
RetrieverPairs ==
    LET docs == {vectorstore[k] : k \in 1..Len(vectorstore)} \cup {UnindexedDocument}
    IN  {<<a, b>> : a \in docs, b \in docs}

\* the call with a retriever that returns two documents, the arguments being
\* those of the split, made on the new store
RetrieveSeveral ==
    /\ pc = "ready"
    /\ relevant_chunks' \in RetrieverPairs
    /\ num_neighbors' \in 0..MaxNeighbors
    /\ arg_chunk_size' = chunk_size
    /\ arg_chunk_overlap' = chunk_overlap
    /\ result_sequences' = <<>>
    /\ next_chunk' = 1
    /\ current_index' = None
    /\ start_index' = 0
    /\ end_index' = 0
    /\ i' = 0
    /\ neighbor_chunks' = <<>>
    /\ concatenated_text' = <<>>
    /\ pc' = "for_chunk"
    /\ lookup_target' = 0
    /\ lookup_result' = None
    /\ previous_result' = None
    /\ UNCHANGED <<splitVars, storeVars, previous_chunks, hypeVars>>

\* the call is made once more on the same store, with the same retriever
\* result, num_neighbors and chunk_overlap, and another chunk_size
RetrieveOtherSize ==
    /\ pc = "returned"
    /\ previous_result = None
    /\ previous_result' = Some(result_sequences)
    /\ arg_chunk_size' \in SizeArgs \ {arg_chunk_size}
    /\ result_sequences' = <<>>
    /\ next_chunk' = 1
    /\ current_index' = None
    /\ start_index' = 0
    /\ end_index' = 0
    /\ i' = 0
    /\ neighbor_chunks' = <<>>
    /\ concatenated_text' = <<>>
    /\ pc' = "for_chunk"
    /\ UNCHANGED <<splitVars, storeVars, relevant_chunks, num_neighbors,
                   arg_chunk_overlap, lookupVars, previous_chunks, hypeVars>>

NextExpand ==
    \/ Next
    \/ RetrieveSeveral
    \/ RetrieveOtherSize

SpecExpand == Init /\ [][NextExpand]_vars

\* =================================== HyPE: hypothetical prompt embeddings
\* bounds of the HyPE inputs: number of chunks, characters of an LLM response
MaxHypeChunks == 2
MaxResponseLen == 2

\* a response is text made of question characters and line breaks
ResponseChars == {"q", "\n"}
Responses == UNION {[1..n -> ResponseChars] : n \in 0..MaxResponseLen}

\* the k-th Document handed to prepare_vector_store by encode_pdf
HypeDocument(k) == [page_content |-> <<k>>, metadata |-> [page |-> k - 1]]

\* str.replace("\n\n", "\n"): non-overlapping occurrences, left to right
RECURSIVE ReplaceDoubleNewline(_)
ReplaceDoubleNewline(s) ==
    IF Len(s) = 0 THEN <<>>
    ELSE IF Len(s) >= 2 /\ s[1] = "\n" /\ s[2] = "\n"
         THEN <<"\n">> \o ReplaceDoubleNewline(SubSeq(s, 3, Len(s)))
         ELSE <<s[1]>> \o ReplaceDoubleNewline(Tail(s))

\* str.split("\n"): the pieces between line breaks, empty pieces included;
\* `piece` is the piece being read
RECURSIVE SplitLines(_, _)
SplitLines(s, piece) ==
    IF Len(s) = 0 THEN <<piece>>
    ELSE IF Head(s) = "\n"
         THEN <<piece>> \o SplitLines(Tail(s), <<>>)
         ELSE SplitLines(Tail(s), Append(piece, Head(s)))

\* questions = response.replace("\n\n", "\n").split("\n")
ParseQuestions(response) == SplitLines(ReplaceDoubleNewline(response), <<>>)

\* embedding_model.embed_documents(questions): one vector per question, a
\* function of the question's text
embed_documents(questions) ==
    [k \in 1..Len(questions) |-> [embedding_of |-> questions[k]]]

\* return chunk_text, embedding_model.embed_documents(questions)
generate_hypothetical_prompt_embeddings(chunk_text, response) ==
    <<chunk_text, embed_documents(ParseQuestions(response))>>

AlwaysInitialize(store) == TRUE

\* if vector_store == None
NeedsInitialization(store) == store = None

\* FAISS(..., docstore=InMemoryDocstore(), index_to_docstore_id={}): an empty
\* store; docs[p] is the entry at index position p
NewFAISS == [docs |-> <<>>]

FirstVectorOnly(chunk, vectors) ==
    <<[text |-> chunk.page_content, vector |-> vectors[1]]>>

\* [(chunk.page_content, vec) for vec in vectors]
ChunksWithEmbeddingVectors(chunk, vectors) ==
    [k \in 1..Len(vectors) |-> [text |-> chunk.page_content, vector |-> vectors[k]]]

add_embeddings_in_front(store, text_embeddings) ==
    [store EXCEPT !.docs = text_embeddings \o @]

\* FAISS.add_embeddings: the entries take the next index positions
add_embeddings(store, text_embeddings) ==
    [store EXCEPT !.docs = @ \o text_embeddings]

\* the variables of the window notebook, which HyPE does not touch
windowVars == <<splitVars, storeVars, callVars, loopVars, lookupVars,
                previous_chunks, previous_result>>

\* entry of prepare_vector_store(chunks): vector_store = None, nothing
\* submitted; each chunk's LLM response is fixed by the chunk
InitHyPE ==
    /\ \E n \in 0..MaxHypeChunks :
          /\ hype_chunks = [k \in 1..n |-> HypeDocument(k)]
          /\ llm_response \in [1..n -> Responses]
    /\ futures = <<>>
    /\ yielded = <<>>
    /\ chunk_vectors = None
    /\ vector_store = None
    /\ faiss_calls = 0
    /\ pc = "hype_submit"
    /\ text = <<>>
    /\ chunk_size = DefaultChunkSize
    /\ chunk_overlap = DefaultChunkOverlap
    /\ start = 0
    /\ chunks = <<>>
    /\ vectorstore = <<>>
    /\ search_order = <<>>
    /\ relevant_chunks = <<>>
    /\ num_neighbors = 0
    /\ arg_chunk_size = DefaultChunkSize
    /\ arg_chunk_overlap = DefaultChunkOverlap
    /\ next_chunk = 1
    /\ current_index = None
    /\ start_index = 0
    /\ end_index = 0
    /\ i = 0
    /\ neighbor_chunks = <<>>
    /\ concatenated_text = <<>>
    /\ result_sequences = <<>>
    /\ lookup_target = 0
    /\ lookup_result = None
    /\ previous_chunks = None
    /\ previous_result = None

\* pool.submit(generate_hypothetical_prompt_embeddings, c) for the next c
Submit ==
    /\ pc = "hype_submit"
    /\ Len(futures) < Len(hype_chunks)
    /\ futures' = Append(futures, "pending")
    /\ UNCHANGED <<pc, hype_chunks, llm_response, yielded, chunk_vectors,
                   vector_store, faiss_calls, windowVars>>

\* the list of futures is complete: as_completed(futures) starts
AllSubmitted ==
    /\ pc = "hype_submit"
    /\ Len(futures) = Len(hype_chunks)
    /\ pc' = "hype_collect"
    /\ UNCHANGED <<hypeVars, windowVars>>

StoreWrittenByWorker(store, result) ==
    IF store = None THEN store
    ELSE Some(add_embeddings(store[1],
                             ChunksWithEmbeddingVectors(result[1], result[2])))

\* the store after a call of generate_hypothetical_prompt_embeddings has
\* run in a pool thread: the function has no access to vector_store, a local
\* of prepare_vector_store
StoreAfterWorker(store, result) == store

\* a worker thread's call returns: its future holds (chunk_text, vectors)
WorkerReturn(k) ==
    /\ futures[k] = "pending"
    /\ futures' = [futures EXCEPT ![k] = "finished"]
    /\ vector_store' = StoreAfterWorker(vector_store,
                           generate_hypothetical_prompt_embeddings(
                               hype_chunks[k], llm_response[k]))
    /\ UNCHANGED <<pc, hype_chunks, llm_response, yielded, chunk_vectors,
                   faiss_calls, windowVars>>

\* a worker thread's call raises (the LLM or the embedding request fails):
\* its future holds the exception
WorkerRaise(k) ==
    /\ futures[k] = "pending"
    /\ futures' = [futures EXCEPT ![k] = "raised"]
    /\ UNCHANGED <<pc, hype_chunks, llm_response, yielded, chunk_vectors,
                   vector_store, faiss_calls, windowVars>>

\* futures that are done and that as_completed has not yielded yet
Completed(outcome) ==
    {k \in 1..Len(futures) :
        /\ futures[k] = outcome
        /\ \A p \in 1..Len(yielded) : yielded[p] # k}

\* as_completed yields a finished future f; chunk, vectors = f.result()
TakeResult ==
    /\ pc = "hype_collect"
    /\ \E k \in Completed("finished") :
          /\ yielded' = Append(yielded, k)
          /\ chunk_vectors' = Some(generate_hypothetical_prompt_embeddings(
                                      hype_chunks[k], llm_response[k]))
    /\ pc' = "hype_check"
    /\ UNCHANGED <<hype_chunks, llm_response, futures, vector_store,
                   faiss_calls, windowVars>>

\* as_completed yields a future whose call raised: f.result() re-raises and
\* control leaves the loop for the exit of the `with` block
ResultRaises ==
    /\ pc = "hype_collect"
    /\ \E k \in Completed("raised") : yielded' = Append(yielded, k)
    /\ pc' = "hype_exit_raise"
    /\ UNCHANGED <<hype_chunks, llm_response, futures, chunk_vectors,
                   vector_store, faiss_calls, windowVars>>

\* if vector_store == None: vector_store = FAISS(...)
InitStore ==
    /\ pc = "hype_check"
    /\ NeedsInitialization(vector_store)
    /\ vector_store' = Some(NewFAISS)
    /\ faiss_calls' = faiss_calls + 1
    /\ pc' = "hype_add"
    /\ UNCHANGED <<hype_chunks, llm_response, futures, yielded, chunk_vectors,
                   windowVars>>

\* the store exists already: the if body is skipped
KeepStore ==
    /\ pc = "hype_check"
    /\ ~NeedsInitialization(vector_store)
    /\ pc' = "hype_add"
    /\ UNCHANGED <<hypeVars, windowVars>>

\* vector_store.add_embeddings(chunks_with_embedding_vectors)
AddEmbeddings ==
    /\ pc = "hype_add"
    /\ vector_store' = Some(add_embeddings(vector_store[1],
                               ChunksWithEmbeddingVectors(chunk_vectors[1][1],
                                                          chunk_vectors[1][2])))
    /\ pc' = "hype_collect"
    /\ UNCHANGED <<hype_chunks, llm_response, futures, yielded, chunk_vectors,
                   faiss_calls, windowVars>>

\* as_completed is exhausted; every future is done, so the exit of the
\* `with` block does not wait; return vector_store
ReturnStore ==
    /\ pc = "hype_collect"
    /\ Len(yielded) = Len(futures)
    /\ pc' = "hype_returned"
    /\ UNCHANGED <<hypeVars, windowVars>>

ShutdownWithoutWait(submitted) == TRUE

\* pool.shutdown(wait=True), called by the exit of the `with` block, returns
\* once every submitted call is done
ShutdownReturns(submitted) ==
    \A k \in 1..Len(submitted) : submitted[k] # "pending"

\* exit of the `with` block with an exception in flight: shutdown(wait=True)
\* returns once no submitted call is still pending, then the exception
\* propagates to the caller
ExitRaising ==
    /\ pc = "hype_exit_raise"
    /\ ShutdownReturns(futures)
    /\ pc' = "hype_raised"
    /\ UNCHANGED <<hypeVars, windowVars>>

NextHyPE ==
    \/ Submit
    \/ AllSubmitted
    \/ \E k \in 1..Len(futures) : WorkerReturn(k)
    \/ \E k \in 1..Len(futures) : WorkerRaise(k)
    \/ TakeResult
    \/ ResultRaises
    \/ InitStore
    \/ KeepStore
    \/ AddEmbeddings
    \/ ReturnStore
    \/ ExitRaising

SpecHyPE == InitHyPE /\ [][NextHyPE]_vars

\* the steps of the thread that called prepare_vector_store
MainThread ==
    \/ Submit
    \/ AllSubmitted
    \/ TakeResult
    \/ ResultRaises
    \/ InitStore
    \/ KeepStore
    \/ AddEmbeddings
    \/ ReturnStore
    \/ ExitRaising

\* the calling thread keeps running, and every submitted call ends (it
\* returns or raises): the pool runs each of them in a thread
SpecHyPEFair ==
    /\ SpecHyPE
    /\ WF_vars(MainThread)
    /\ \A k \in 1..MaxHypeChunks :
          WF_vars(k <= Len(futures) /\ (WorkerReturn(k) \/ WorkerRaise(k)))

\* ======================================================= claims C1 .. C10
\* chunk_size - chunk_overlap, the advance the contract speaks of
Step == chunk_size - chunk_overlap

\* source[from : to] of the contract, clipped at the end of the source
ClippedSlice(source, from, to) == SubSeq(source, from + 1, Min(to, Len(source)))

\* the splitter has returned its list
SplitReturned == pc # "split"

\* the stitching loop of the expander is through: concatenated_text is what
\* gets appended to the result for relevant_chunks[next_chunk]
StitchDone == pc = "stitch" /\ ~(i < Len(neighbor_chunks))

\* the indices of the chunks of a list, in list order
IndicesOf(list) == [k \in 1..Len(list) |-> list[k].metadata.index]

\* C1: under a valid configuration every returned chunk with index n has the
\* text source_text[n*(size-overlap) : n*(size-overlap)+size], clipped at the
\* end of the text.
C1_ChunkTextIsSlice ==
    (SplitReturned /\ ValidConfig(chunk_size, chunk_overlap)) =>
        \A k \in 1..Len(chunks) :
            LET n == chunks[k].metadata.index
            IN  chunks[k].page_content =
                    ClippedSlice(text, n * Step, n * Step + chunk_size)

\* C1 witness: a valid split with overlap whose last chunk is clipped
C1_Witness ==
    /\ pc = "split_done"
    /\ ValidConfig(chunk_size, chunk_overlap)
    /\ chunk_overlap >= 1
    /\ Len(chunks) >= 3
    /\ Len(chunks[Len(chunks)].page_content) < chunk_size

\* a chunk's text without its first `overlap` characters
DropFirst(chunk_text, overlap) == SubSeq(chunk_text, overlap + 1, Len(chunk_text))

\* the first chunk whole, then every later chunk without its first `overlap`
\* characters, concatenated in list order
RECURSIVE Reassemble(_, _)
Reassemble(list, overlap) ==
    IF list = <<>> THEN <<>>
    ELSE IF Len(list) = 1 THEN list[1].page_content
    ELSE Reassemble(SubSeq(list, 1, Len(list) - 1), overlap)
             \o DropFirst(list[Len(list)].page_content, overlap)

\* C2: under a valid configuration, the returned chunks with the first
\* chunk_overlap characters of all but the first removed concatenate to the
\* source text.
C2_ReassembleGivesText ==
    (pc = "split_done" /\ ValidConfig(chunk_size, chunk_overlap)) =>
        Reassemble(chunks, chunk_overlap) = text

\* C2 witness: a valid split whose last chunk is shorter than the overlap, so
\* that it contributes nothing
C2_Witness ==
    /\ pc = "split_done"
    /\ ValidConfig(chunk_size, chunk_overlap)
    /\ Len(chunks) >= 3
    /\ Len(chunks[Len(chunks)].page_content) < chunk_overlap
    /\ Reassemble(chunks, chunk_overlap) = text

\* C3: with the chunk_overlap of the split, the stitched text is the
\* contiguous slice of the source from the start of the first window chunk to
\* the end of the last one.
C3_StitchedIsContiguousSlice ==
    (/\ StitchDone
     /\ ValidConfig(chunk_size, chunk_overlap)
     /\ arg_chunk_overlap = chunk_overlap) =>
        LET first == neighbor_chunks[1].metadata.index
            last == neighbor_chunks[Len(neighbor_chunks)].metadata.index
        IN  concatenated_text =
                ClippedSlice(text, first * Step, last * Step + chunk_size)

\* C4: a call with chunk_overlap >= chunk_size, a non-positive chunk_size or a
\* negative chunk_overlap fails at once: it appends no chunk and returns no
\* list.
C4_InvalidConfigurationRejected ==
    ~ValidConfig(chunk_size, chunk_overlap) =>
        (chunks = <<>> /\ pc = "split")

\* C5: on every configuration the splitter accepts, the start offset strictly
\* increases on every iteration of its loop.
C5_StartStrictlyIncreases ==
    [][(pc = "split" /\ chunks' # chunks) => start' > start]_vars

\* C6: the chunks carry the indices 0, 1, ..., n-1 in list order.
C6_IndicesArePositions ==
    \A k \in 1..Len(chunks) : MetadataGetIndex(chunks[k]) = Some(k - 1)

\* C6 witness: a returned list of at least three chunks
C6_Witness ==
    /\ pc = "split_done"
    /\ Len(chunks) >= 3
    /\ IndicesOf(chunks) = [k \in 1..Len(chunks) |-> k - 1]

\* the chunk at list position k starts at character offset `offset` of the
\* known string, whose character at offset o has code o + 1
StartsAtOffset(k, offset) ==
    /\ chunks[k].page_content # <<>>
    /\ chunks[k].page_content[1] = offset + 1

C8_RoundTripWindow ==
    (/\ StitchDone
     /\ current_index = Some(1)
     /\ num_neighbors = 1
     /\ arg_chunk_overlap = 200) =>
        concatenated_text = SubSeq(text, 1, 800)

\* C8 witness: that expansion has been made and returned
C8_Witness ==
    /\ pc = "returned"
    /\ Len(text) = 1000 /\ chunk_size = 400 /\ chunk_overlap = 200
    /\ current_index = Some(1)
    /\ num_neighbors = 1
    /\ arg_chunk_overlap = 200
    /\ IndicesOf(neighbor_chunks) = <<0, 1, 2>>
    /\ result_sequences = <<SubSeq(text, 1, 800)>>

\* C9: with num_neighbors = 0 the expansion is the matched chunk's text,
\* untrimmed, whatever chunk_overlap is passed.
C9_NoNeighborsGivesCenter ==
    num_neighbors = 0 =>
        /\ pc # "error"
        /\ StitchDone =>
               concatenated_text = relevant_chunks[next_chunk].page_content

\* C9 witness: an expansion with no neighbours of a chunk that has chunks on
\* both sides, with an overlap argument that could trim it, has returned
C9_Witness ==
    /\ pc = "returned"
    /\ num_neighbors = 0
    /\ arg_chunk_overlap >= 1
    /\ current_index # None
    /\ current_index[1] >= 1
    /\ current_index[1] + 1 < Len(vectorstore)
    /\ relevant_chunks[1].page_content # <<>>
    /\ result_sequences = <<relevant_chunks[1].page_content>>

\* s starts with p
StartsWith(s, p) == Len(p) <= Len(s) /\ SubSeq(s, 1, Len(p)) = p

\* C10: an expansion centered on chunk 0 uses no chunk before it and exactly
\* min(N, number of chunks after it) chunks after it, and its result starts
\* with chunk 0's text (here for a valid configuration and the chunk_overlap
\* of the split).
C10_FirstChunkWindow ==
    (/\ StitchDone
     /\ current_index = Some(0)
     /\ ValidConfig(chunk_size, chunk_overlap)
     /\ arg_chunk_overlap = chunk_overlap) =>
        /\ IndicesOf(neighbor_chunks) =
               [k \in 1..(1 + Min(num_neighbors, Len(vectorstore) - 1)) |-> k - 1]
        /\ StartsWith(concatenated_text, relevant_chunks[next_chunk].page_content)

\* ====================================================== claims C11 .. C17
\* index of the last chunk of the store
LastIndex == Len(vectorstore) - 1

\* the indices lo, lo+1, ..., hi in ascending order
WindowIndices(lo, hi) == [k \in 1..(hi - lo + 1) |-> lo + k - 1]

\* the window of the chunk being expanded is collected and sorted
WindowCollected == pc \in {"concat", "stitch"}

\* C11: when center + num_neighbors exceeds the last chunk index the window
\* just holds fewer chunks on that side (it ends at the last chunk), no error
\* is raised and a result is returned for the center chunk.
C11_EndOfDocumentClipped ==
    (current_index # None /\ current_index[1] + num_neighbors > LastIndex) =>
        /\ pc # "error"
        /\ WindowCollected =>
               IndicesOf(neighbor_chunks) = WindowIndices(start_index, LastIndex)
        /\ pc = "returned" => result_sequences # <<>>

\* C11 witness: the last chunk of a store of at least three chunks has been
\* expanded with two neighbours a side and the result returned
C11_Witness ==
    /\ pc = "returned"
    /\ Len(vectorstore) >= 3
    /\ current_index = Some(LastIndex)
    /\ num_neighbors = 2
    /\ IndicesOf(neighbor_chunks) = WindowIndices(LastIndex - 2, LastIndex)
    /\ Len(result_sequences) = 1

\* C12: get_chunk_by_index returns the chunk whose index metadata is the
\* target when 0 <= target <= last index, and None when the target is
\* negative or beyond the last chunk.
C12_LookupByIndex ==
    pc = "looked_up" =>
        IF 0 <= lookup_target /\ lookup_target <= LastIndex
        THEN /\ lookup_result # None
             /\ \E k \in 1..Len(vectorstore) : lookup_result[1] = vectorstore[k]
             /\ MetadataGetIndex(lookup_result[1]) = Some(lookup_target)
        ELSE lookup_result = None

\* C12 witness: a lookup of a negative index on a store of several chunks
\* has answered None
C12_Witness ==
    /\ pc = "looked_up"
    /\ Len(vectorstore) >= 2
    /\ lookup_target < 0
    /\ lookup_result = None

\* the retrieved chunks that are chunks of the store
MatchedChunks ==
    {k \in 1..Len(relevant_chunks) :
        \E d \in 1..Len(vectorstore) : relevant_chunks[k] = vectorstore[d]}

\* C13: on a store with chunks 0..n-1, n >= 1, the expander never fails: the
\* window is not empty when its first element is read, and on return there
\* is one string for every matched chunk of the store.
C13_ExpanderNeverFails ==
    /\ pc # "error"
    /\ pc = "concat" => neighbor_chunks # <<>>
    /\ pc = "returned" => Len(result_sequences) = Cardinality(MatchedChunks)

\* C13 witness: the only chunk of a one-chunk store has been expanded with
\* two neighbours a side, none of which exists
C13_Witness ==
    /\ pc = "returned"
    /\ Len(vectorstore) = 1
    /\ num_neighbors = 2
    /\ current_index = Some(0)
    /\ result_sequences = <<vectorstore[1].page_content>>

\* C14: the chunks stitched for center c and radius N are those of indices
\* max(0, c-N) .. min(last, c+N), each once, in ascending order (so that
\* consecutive chunks of the window are index-adjacent).
C14_WindowIsClippedRange ==
    (WindowCollected /\ current_index # None) =>
        IndicesOf(neighbor_chunks) =
            WindowIndices(Max(0, current_index[1] - num_neighbors),
                          Min(LastIndex, current_index[1] + num_neighbors))

\* C14 witness: a window of three chunks that is clipped on neither side has
\* been stitched
C14_Witness ==
    /\ StitchDone
    /\ num_neighbors = 1
    /\ current_index # None
    /\ current_index[1] >= 1
    /\ current_index[1] + 1 < LastIndex
    /\ IndicesOf(neighbor_chunks) =
           WindowIndices(current_index[1] - 1, current_index[1] + 1)

\* C15: under a valid configuration every returned chunk except the last one
\* has length exactly chunk_size.
C15_OnlyLastChunkShorter ==
    (SplitReturned /\ ValidConfig(chunk_size, chunk_overlap)) =>
        \A k \in 1..(Len(chunks) - 1) : Len(chunks[k].page_content) = chunk_size

\* C16: a second run of the splitter on the same text, chunk_size and
\* chunk_overlap returns the same list of chunks as the first run.
C16_SecondRunSameChunks ==
    (pc = "split_done" /\ previous_chunks # None) => chunks = previous_chunks[1]

\* C16 witness: the second run has returned a list of at least three chunks
C16_Witness ==
    /\ pc = "split_done"
    /\ previous_chunks # None
    /\ Len(previous_chunks[1]) >= 3
    /\ chunks = previous_chunks[1]

\* C17: once the store is built, lookups and expansions leave it as it was
\* right after ingestion: the same chunks with the same index and text.
C17_StoreNeverMutated ==
    pc \notin {"split", "split_done"} => vectorstore = chunks

\* C17 witness: an expansion that stitched at least two chunks with a
\* trimming overlap has returned, the store being what was ingested
C17_Witness ==
    /\ pc = "returned"
    /\ Len(neighbor_chunks) >= 2
    /\ arg_chunk_overlap >= 1
    /\ concatenated_text # neighbor_chunks[1].page_content
    /\ vectorstore = chunks


\* ======================================================= claims C18 .. C20
\* prepare_vector_store has returned its vector_store to the caller
HypeReturned == pc = "hype_returned"

\* the entries of the store by index position; no store, no entries
StoreDocs == IF vector_store = None THEN <<>> ELSE vector_store[1].docs

\* the futures in the order they were submitted: one per chunk, by chunk index
SubmissionOrder == [k \in 1..Len(hype_chunks) |-> k]

\* the (text, vector) entries chunk k gives rise to: its own text with the
\* embedding of each question parsed from its response, in response order
PairsOf(k) ==
    LET questions == ParseQuestions(llm_response[k])
    IN  [j \in 1..Len(questions) |->
            [text |-> hype_chunks[k].page_content,
             vector |-> [embedding_of |-> questions[j]]]]

RECURSIVE EntriesInOrder(_)
EntriesInOrder(order) ==
    IF Len(order) = 0 THEN <<>>
    ELSE PairsOf(Head(order)) \o EntriesInOrder(Tail(order))

\* how many times entry e occurs in the sequence s
Occurrences(e, s) == Cardinality({p \in 1..Len(s) : s[p] = e})

SameEntries(s, t) ==
    /\ Len(s) = Len(t)
    /\ \A p \in 1..Len(s) : Occurrences(s[p], s) = Occurrences(s[p], t)

\* the results taken from futures so far (f.result() returned)
ResultsTaken ==
    Cardinality({p \in 1..Len(yielded) : futures[yielded[p]] = "finished"})

\* C18 as stated: the store does not depend on the order in which the requests
\* complete, its entries sit under keys given by the chunk index; whatever the
\* interleaving of completions, the returned store is the one of the run in
\* which the futures complete in submission order.
C18_StoreIndependentOfCompletionOrder ==
    HypeReturned => StoreDocs = EntriesInOrder(SubmissionOrder)

\* C18 amended: the returned store holds the same entries (each as many times)
\* for every interleaving of completions, but at positions that follow the
\* order in which as_completed yielded the futures, not the chunk index.
C18_StoreFollowsCompletionOrder ==
    HypeReturned =>
        /\ StoreDocs = EntriesInOrder(yielded)
        /\ SameEntries(StoreDocs, EntriesInOrder(SubmissionOrder))

\* a call has returned whose second chunk completed first, with a store that
\* is not the store of the in-order run
C18_Witness ==
    /\ HypeReturned
    /\ Len(yielded) >= 2
    /\ yielded[1] = 2
    /\ StoreDocs # EntriesInOrder(SubmissionOrder)

\* C19: when prepare_vector_store returns normally every submitted chunk has
\* been processed, and the store holds one entry per (chunk, question vector)
\* pair: the chunk's own text with each of its vectors, none lost, none
\* duplicated, under any completion order.
C19_OneEntryPerChunkVector ==
    HypeReturned =>
        /\ Len(futures) = Len(hype_chunks)
        /\ \A k \in 1..Len(hype_chunks) :
              /\ futures[k] = "finished"
              /\ Occurrences(k, yielded) = 1
              /\ \A j \in 1..Len(PairsOf(k)) :
                    Occurrences(PairsOf(k)[j], StoreDocs)
                        = Occurrences(PairsOf(k)[j], PairsOf(k))
        /\ \A p \in 1..Len(StoreDocs) :
              \E k \in 1..Len(hype_chunks) :
                  \E j \in 1..Len(PairsOf(k)) : StoreDocs[p] = PairsOf(k)[j]

\* a call has returned for two chunks completed out of order, one of them
\* with several questions
C19_Witness ==
    /\ HypeReturned
    /\ Len(hype_chunks) = 2
    /\ yielded = <<2, 1>>
    /\ Len(PairsOf(1)) >= 2
    /\ Len(StoreDocs) = Len(PairsOf(1)) + Len(PairsOf(2))

\* C20: the store is created exactly once, while the first result taken is
\* processed (whichever chunk it belongs to), before the first add_embeddings
\* call; later results never create it again.
C20_StoreCreatedOnceBeforeAdd ==
    /\ faiss_calls <= 1
    /\ (faiss_calls = 0) <=> (vector_store = None)
    /\ ResultsTaken = 0 => faiss_calls = 0
    /\ (ResultsTaken = 1 /\ pc = "hype_check") => faiss_calls = 0
    /\ (ResultsTaken >= 1 /\ pc # "hype_check") => faiss_calls = 1
    /\ ResultsTaken >= 2 => faiss_calls = 1
    /\ pc = "hype_add" => vector_store # None
    /\ faiss_calls = 0 => StoreDocs = <<>>

\* the second result is about to be added to the store created for the first,
\* which was not the first chunk submitted
C20_Witness ==
    /\ pc = "hype_add"
    /\ ResultsTaken = 2
    /\ yielded[1] # 1
    /\ faiss_calls = 1
    /\ Len(StoreDocs) >= 1


\* ======================================================= claims C21 .. C28
\* the entries the result being processed gives rise to
CurrentPairs == PairsOf(yielded[Len(yielded)])

\* C21: the store is created and written by steps of the calling thread only,
\* for one completed future at a time: a step that changes the store is the
\* calling thread's creation or add_embeddings step, completes no future, and
\* an add_embeddings step appends the entries of the one result being
\* processed; a step of a worker thread leaves the store as it is.
C21_OnlyCallingThreadWritesStore ==
    [][/\ (vector_store' # vector_store \/ faiss_calls' # faiss_calls) =>
              /\ futures' = futures
              /\ pc \in {"hype_check", "hype_add"}
              /\ pc' # pc
       /\ futures' # futures => UNCHANGED <<vector_store, faiss_calls>>
       /\ (pc = "hype_add" /\ pc' # pc) =>
              StoreDocs' = StoreDocs \o CurrentPairs]_vars

\* the calling thread is about to add a result to the store while the call
\* of another chunk is still running in the pool
C21_Witness ==
    /\ pc = "hype_add"
    /\ vector_store # None
    /\ \E k \in 1..Len(futures) : futures[k] = "pending"

\* some submitted call has raised
SomeTaskRaised == \E k \in 1..Len(futures) : futures[k] = "raised"

\* C22: a store is returned only when no task raised, and then it is fully
\* populated; when a task raises, the call ends by raising, from the
\* collection loop, and only once no submitted call is still running.
C22_NoPartialStoreReturned ==
    /\ [](HypeReturned =>
              /\ ~SomeTaskRaised
              /\ \A k \in 1..Len(hype_chunks) : futures[k] = "finished"
              /\ Len(StoreDocs) = Len(EntriesInOrder(SubmissionOrder)))
    /\ [](pc \in {"hype_exit_raise", "hype_raised"} =>
              futures[yielded[Len(yielded)]] = "raised")
    /\ [](pc = "hype_raised" =>
              \A k \in 1..Len(futures) : futures[k] # "pending")
    /\ (SomeTaskRaised ~> pc = "hype_raised")

\* the call has ended by raising after part of the store was filled: one
\* result was added, the other task raised
C22_Witness ==
    /\ pc = "hype_raised"
    /\ Len(hype_chunks) = 2
    /\ Len(StoreDocs) >= 1
    /\ Len(StoreDocs) < Len(EntriesInOrder(SubmissionOrder))


\* every chunk of the window but possibly the last has chunk_size characters
WindowChunksFull ==
    \A j \in 1..(Len(neighbor_chunks) - 1) :
        Len(neighbor_chunks[j].page_content) = chunk_size

\* the slice of the source from the start of the first window chunk to the
\* end of the last one
WindowSlice ==
    LET first == neighbor_chunks[1].metadata.index
        last == neighbor_chunks[Len(neighbor_chunks)].metadata.index
    IN  ClippedSlice(text, first * Step, last * Step + chunk_size)

\* C23: whenever every chunk of the window except possibly its last one has
\* the full chunk_size length and the expander is given the chunk_overlap of
\* the split, the stitched text is exactly the source slice from
\* first_index * (chunk_size - chunk_overlap) to the end of the last window
\* chunk.
C23_FullChunksStitchToSlice ==
    (/\ StitchDone
     /\ WindowChunksFull
     /\ arg_chunk_overlap = chunk_overlap) =>
        concatenated_text = WindowSlice

\* the same statement for the configurations of the splitter's contract,
\* 0 <= chunk_overlap < chunk_size
C23_ValidFullChunksStitchToSlice ==
    (/\ StitchDone
     /\ ValidConfig(chunk_size, chunk_overlap)
     /\ WindowChunksFull
     /\ arg_chunk_overlap = chunk_overlap) =>
        concatenated_text = WindowSlice


\* the expander has returned result_sequences
ExpanderReturned == pc = "returned"

\* C24: the result of retrieve_with_context_overlap does not depend on its
\* chunk_size argument: the call repeated on the same store with the same
\* retriever result, num_neighbors and chunk_overlap and another chunk_size
\* returns what the first call returned.
C24_ChunkSizeArgumentIgnored ==
    (ExpanderReturned /\ previous_result # None) =>
        result_sequences = previous_result[1]

\* the repeated call has returned for a window of several chunks of a store
\* split with a size other than the one passed
C24_Witness ==
    /\ ExpanderReturned
    /\ previous_result # None
    /\ arg_chunk_size # chunk_size
    /\ num_neighbors >= 1
    /\ Len(result_sequences) >= 1
    /\ Len(vectorstore) >= 3
    /\ arg_chunk_overlap >= 1
    /\ result_sequences = previous_result[1]


\* the document carries an index
HasIndex(doc) == MetadataGetIndex(doc) # None

\* the retrieved chunks that carry an index, in the retriever's order
IndexedRelevantChunks == SelectSeq(relevant_chunks, HasIndex)

\* sub occurs in s as a run of consecutive characters
Contains(s, sub) ==
    \E off \in 0..(Len(s) - Len(sub)) : SubSeq(s, off + 1, off + Len(sub)) = sub

\* C25: the expander returns one stitched sequence per retrieved chunk that
\* carries an index, in the retriever's order, each sequence containing the
\* text of its relevant chunk; chunks without index contribute nothing.
\* (Stated for a valid split and the chunk_overlap of the split.)
C25_SequencePerChunkContainsIt ==
    (/\ ExpanderReturned
     /\ ValidConfig(chunk_size, chunk_overlap)
     /\ arg_chunk_overlap = chunk_overlap) =>
        /\ Len(result_sequences) = Len(IndexedRelevantChunks)
        /\ \A j \in 1..Len(IndexedRelevantChunks) :
              Contains(result_sequences[j], IndexedRelevantChunks[j].page_content)

\* the part of C25 about the number of sequences: one per retrieved chunk
\* with an index, none for the others, whatever the arguments
C25_OneSequencePerIndexedChunk ==
    ExpanderReturned => Len(result_sequences) = Len(IndexedRelevantChunks)


\* ceil(a / b) for b > 0
CeilDiv(a, b) == (a + b - 1) \div b

\* C26: for every text of length L and valid chunk_size > chunk_overlap >= 0
\* the splitter returns exactly ceil(L / (chunk_size - chunk_overlap)) chunks;
\* an empty text gives an empty list.
C26_ChunkCount ==
    (pc = "split_done" /\ ValidConfig(chunk_size, chunk_overlap)) =>
        /\ Len(chunks) = CeilDiv(Len(text), Step)
        /\ Len(text) = 0 => chunks = <<>>

\* a valid split with overlap has returned, the length of the text not being
\* a multiple of the advance
C26_Witness ==
    /\ pc = "split_done"
    /\ ValidConfig(chunk_size, chunk_overlap)
    /\ chunk_overlap >= 1
    /\ Step >= 2
    /\ Len(text) % Step # 0
    /\ Len(chunks) = CeilDiv(Len(text), Step)
    /\ Len(chunks) >= 2

\* C27: for every text and valid configuration every chunk the splitter
\* appends is non-empty, of 1 to chunk_size characters, and its metadata holds
\* the full source text, the same for every chunk.
C27_ChunksNonEmptyWithSource ==
    ValidConfig(chunk_size, chunk_overlap) =>
        \A k \in 1..Len(chunks) :
            /\ 1 <= Len(chunks[k].page_content)
            /\ Len(chunks[k].page_content) <= chunk_size
            /\ chunks[k].metadata.text = text

\* a valid split has returned whose last chunk is a single character, less
\* than chunk_size
C27_Witness ==
    /\ pc = "split_done"
    /\ ValidConfig(chunk_size, chunk_overlap)
    /\ Len(chunks) >= 3
    /\ chunk_size >= 2
    /\ Len(chunks[Len(chunks)].page_content) = 1
    /\ chunks[1].metadata.text = text
    /\ chunks[Len(chunks)].metadata.text = text


\* the piece holds at least one character
NonEmpty(piece) == Len(piece) >= 1

\* the question lines of a response: its maximal runs of characters other
\* than line breaks
QuestionLines(response) == SelectSeq(SplitLines(response, <<>>), NonEmpty)

\* the questions that were embedded for the result just taken
EmbeddedQuestions ==
    [j \in 1..Len(chunk_vectors[1][2]) |-> chunk_vectors[1][2][j].embedding_of]

\* C28: extra newlines are removed before the questions are embedded: for
\* every LLM response the list passed to the embedding call has one entry per
\* question line and no empty string, however many consecutive or trailing
\* newlines the response contains.
C28_NoEmptyQuestion ==
    chunk_vectors # None =>
        /\ EmbeddedQuestions = QuestionLines(llm_response[yielded[Len(yielded)]])
        /\ \A j \in 1..Len(EmbeddedQuestions) : EmbeddedQuestions[j] # <<>>

====
